---- MODULE Spec2Model ----
(***************************************************************************)
(* Content-integrity anchoring of theme-radar-log:                         *)
(*   scripts/anchor_hash.py          the Bundle Fingerprinter (CLI)        *)
(*   scripts/publish_today.py        the publish workflow, which embeds    *)
(*                                   the bundle root in the day's report   *)
(*   scripts/weekly_anchor_rollup.py the Rollup Chainer                    *)
(*                                                                         *)
(* Byte strings are modelled as terms.  Every term is a record             *)
(* [tag, n, kids]; sha256 is the free (collision-free) constructor over    *)
(* the sequence of chunks fed to it, a hex string is a term around the     *)
(* digest it spells whose tag says how it is spelled, and a document is a  *)
(* term listing the lines the programs look at, in text order.             *)
(***************************************************************************)
EXTENDS Integers, Sequences, FiniteSets, TLC

VARIABLES fs, out, isoArgs, isoRes

vars == <<fs, out, isoArgs, isoRes>>

(* ------------------------------ bounds -------------------------------- *)

\* report bodies the publish workflow may render: 1..MaxBody
MaxBody == 2
\* diagnostic image contents: 1..MaxPng
MaxPng == 2
\* years the ISO-week function is exercised on: FirstYear..LastYear
FirstYear == 2015
LastYear == 2032

(* ------------------------------- terms -------------------------------- *)

V(tag, n, kids) == [tag |-> tag, n |-> n, kids |-> kids]

\* Python's None
NoneV == V("none", 0, <<>>)

\* hashlib.sha256 over the chunks fed by update(), then digest(): 32 raw bytes
sha256(chunks) == V("sha256", 0, chunks)

\* H.hexdigest(): the 64 lowercase hex digits spelling a digest
hexdigest(d) == V("hex", 0, <<d>>)

\* the spellings of a string found between the marker's backticks:
\*   "hex"    64 lowercase hex digits      "HEX"    64 hex digits, some uppercase
\*   "hex63"  63 hex digits                "hex65"  65 hex digits
\*   "nothex" 64 characters, one of them no hex digit
HexForms == {"hex", "HEX", "hex63", "hex65", "nothex"}

\* [0-9a-fA-F]{64} between the two backticks
IsHex64(h) == h.tag \in {"hex", "HEX"}

\* str.lower()
lower(h) == IF h.tag = "HEX" THEN V("hex", h.n, h.kids) ELSE h

\* bytes.fromhex(h): the raw bytes a hex string spells, in either case
fromhex(h) == <<h.kids[1]>>

(* ------------------------------- dates -------------------------------- *)

IsLeap(y) == (y % 4 = 0) /\ ((y % 100 # 0) \/ (y % 400 = 0))

DaysInMonth(y, m) ==
    IF m = 2 THEN (IF IsLeap(y) THEN 29 ELSE 28)
    ELSE IF m \in {4, 6, 9, 11} THEN 30 ELSE 31

DaysBeforeYear(y) ==
    LET p == y - 1 IN 365 * p + (p \div 4) - (p \div 100) + (p \div 400)

RECURSIVE DaysBeforeMonth(_, _)
DaysBeforeMonth(y, m) ==
    IF m = 1 THEN 0 ELSE DaysBeforeMonth(y, m - 1) + DaysInMonth(y, m - 1)

\* datetime.date(y, m, d) as its proleptic Gregorian ordinal (0001-01-01 is 1)
date(y, m, d) == DaysBeforeYear(y) + DaysBeforeMonth(y, m) + d

\* the year an ordinal falls in: a first guess from the mean length of a
\* year (146097 days in 400 years), then set right by at most one
YearOf(o) ==
    LET g == (((o - 1) * 400) \div 146097) + 1
    IN  IF o <= DaysBeforeYear(g) THEN g - 1
        ELSE IF o > DaysBeforeYear(g + 1) THEN g + 1
        ELSE g

\* date.isoformat(): "YYYY-MM-DD", kept as its three numbers
isoformat(o) ==
    LET y == YearOf(o)
        r == o - DaysBeforeYear(y)
        m == CHOOSE k \in 1..12 :
                DaysBeforeMonth(y, k) < r /\ r <= DaysBeforeMonth(y, k) + DaysInMonth(y, k)
    IN  <<y, m, r - DaysBeforeMonth(y, m)>>

\* date.isoweekday(): Monday is 1, Sunday is 7
isoweekday(o) == IF o % 7 = 0 THEN 7 ELSE o % 7

\* Monday of ISO week 1 of a year, as date.isocalendar() finds it
isoweek1monday(y) ==
    LET firstday == date(y, 1, 1)
        firstweekday == (firstday + 6) % 7
        week1monday == firstday - firstweekday
    IN  IF firstweekday > 3 THEN week1monday + 7 ELSE week1monday

\* date.isocalendar(): <<ISO year, ISO week, ISO weekday>>
isocalendar(o) ==
    LET y == YearOf(o)
        w == (o - isoweek1monday(y)) \div 7
        dow == ((o + 6) % 7) + 1
    IN  IF o < isoweek1monday(y)
        THEN <<y - 1, ((o - isoweek1monday(y - 1)) \div 7) + 1, dow>>
        ELSE IF w >= 52 /\ o >= isoweek1monday(y + 1)
        THEN <<y + 1, 1, dow>>
        ELSE <<y, w + 1, dow>>

\* a mutant of iso_week_dates: week 1 anchored on January 1st
iso_week_dates_jan1(year, week) ==
    LET jan1 == date(year, 1, 1)
        start == jan1 - (isoweekday(jan1) - 1)
        monday == start + 7 * (week - 1)
    IN  [i \in 1..7 |-> monday + (i - 1)]

iso_week_dates(year, week) ==
    LET jan4 == date(year, 1, 4)
        start == jan4 - (isoweekday(jan4) - 1)
        monday == start + 7 * (week - 1)
    IN  [i \in 1..7 |-> monday + (i - 1)]

\* what a run leaves on its terminal: printed values, or the error raised
NoOut == [op |-> "none", arg |-> <<0, 0, 0>>, status |-> "none", root |-> NoneV,
          parts |-> <<>>, days |-> <<>>, entries |-> <<>>, missing |-> <<>>]

(* ----------------------------- documents ------------------------------ *)

\* a diagnostic image
Png(v) == V("png", v, <<>>)

\* the report's line "![diagnostic W63](../assets/diagnostic/<date>_W63.png)"
ImgLine == V("img63", 0, <<>>)

\* a line "BUNDLE_ROOT_SHA256:<sep>`<h>`"; sep is the text between the colon
\* and the opening backtick: "ws" for white space only (or nothing), "bold"
\* for the "** " that closes the bold span of "**BUNDLE_ROOT_SHA256:** `<h>`"
MarkerLine(sep, h) == V("marker", 0, <<V(sep, 0, <<>>), h>>)

\* a report document: body b and, in text order, the lines the programs read
Md(b, lines) == V("md", b, lines)

\* "YYYY-MM-DD" as a term
DateV(dstr) == V("date", dstr[1], <<V("month", dstr[2], <<>>), V("day", dstr[3], <<>>)>>)

(* ------------------------------- paths -------------------------------- *)

\* root / "logs" / f"{dstr}.md"
LogPath(dstr) == [dir |-> "logs", name |-> "", key |-> dstr]
\* root / "assets" / "diagnostic" / f"{dstr}_W{W}.png"
DiagPath(dstr, W) == [dir |-> "assets/diagnostic", name |-> W, key |-> dstr]
\* root / "logs" / "index.json"
IndexPath == [dir |-> "logs", name |-> "index.json", key |-> <<0, 0, 0>>]

\* root / "logs", the directory itself
LogsDir == [dir |-> "logs", name |-> ".", key |-> <<0, 0, 0>>]
\* root / "logs" / f"weekly_{label}.md"; label is f"{y}-W{w:02d}" plus suffix
WeeklyPath(label) ==
    [dir |-> "logs", name |-> "weekly_" \o label.suffix, key |-> <<label.year, label.week, 0>>]

\* the repository root the programs are run from: logs/ is there and empty
RepoRoot == (LogsDir :> V("dir", 0, <<>>))

exists(f, p) == p \in DOMAIN f
write(f, p, c) == (p :> c) @@ f

(* ------------------------- Bundle Fingerprinter ----------------------- *)

\* sha256_file(p): the file's bytes streamed through sha256, as hex
sha256_file(f, p) == hexdigest(sha256(<<f[p]>>))

\* for p in (md, w63, w252): if p.exists(): parts.append(...)
RECURSIVE ExistingParts(_, _)
ExistingParts(f, paths) ==
    IF paths = <<>> THEN <<>>
    ELSE IF exists(f, Head(paths))
         THEN <<[name |-> Head(paths), h |-> sha256_file(f, Head(paths))]>>
              \o ExistingParts(f, Tail(paths))
         ELSE ExistingParts(f, Tail(paths))

BundlePaths(dstr) == <<LogPath(dstr), DiagPath(dstr, "W63"), DiagPath(dstr, "W252")>>

\* for h in hex_list: H.update(bytes.fromhex(h))
RECURSIVE ConcatFromHex(_)
ConcatFromHex(hs) ==
    IF hs = <<>> THEN <<>> ELSE fromhex(Head(hs)) \o ConcatFromHex(Tail(hs))

\* a mutant of RootOfParts: a digest already fed is not fed again
RECURSIVE Dedup(_)
Dedup(hs) ==
    IF hs = <<>> THEN <<>>
    ELSE IF \E i \in 1..(Len(hs) - 1) : hs[i] = hs[Len(hs)]
         THEN Dedup(SubSeq(hs, 1, Len(hs) - 1))
         ELSE Dedup(SubSeq(hs, 1, Len(hs) - 1)) \o <<hs[Len(hs)]>>

RootOfParts_dedup(hs) == hexdigest(sha256(ConcatFromHex(Dedup(hs))))

\* H = sha256(); for h in parts: H.update(bytes.fromhex(h)); H.hexdigest()
RootOfParts(hs) == hexdigest(sha256(ConcatFromHex(hs)))

PartHashes(parts) == [i \in 1..Len(parts) |-> parts[i].h]

\* publish_today.compute_bundle_root_sha256(root, dstr)
compute_bundle_root_sha256(f, dstr) ==
    LET parts == ExistingParts(f, BundlePaths(dstr))
    IN  IF parts = <<>> THEN NoneV ELSE RootOfParts(PartHashes(parts))

\* a mutant of anchor_hash_main: the report is required
anchor_hash_main_md_required(f, dstr) ==
    LET parts == ExistingParts(f, BundlePaths(dstr))
    IN  IF ~exists(f, LogPath(dstr))
        THEN [NoOut EXCEPT !.op = "anchor_hash", !.arg = dstr,
                           !.status = "NoArtifactsFound"]
        ELSE [NoOut EXCEPT !.op = "anchor_hash", !.arg = dstr, !.status = "ok",
                           !.parts = parts, !.root = RootOfParts(PartHashes(parts))]

\* anchor_hash.main(): what the run prints, or the FileNotFoundError it raises
anchor_hash_main(f, dstr) ==
    LET parts == ExistingParts(f, BundlePaths(dstr))
    IN  IF parts = <<>>
        THEN [NoOut EXCEPT !.op = "anchor_hash", !.arg = dstr,
                           !.status = "NoArtifactsFound"]
        ELSE [NoOut EXCEPT !.op = "anchor_hash", !.arg = dstr, !.status = "ok",
                           !.parts = parts, !.root = RootOfParts(PartHashes(parts))]

(* --------------------------- publish workflow ------------------------- *)

\* for W in (63, 252): if src.exists(): shutil.copyfile(src, diag_dir / ...)
\* (s63, s252: the run directory's diagnostic images, 0 when it has none)
CopyDiagnostics(f, dstr, s63, s252) ==
    LET f1 == IF s63 # 0 THEN write(f, DiagPath(dstr, "W63"), Png(s63)) ELSE f
    IN  IF s252 # 0 THEN write(f1, DiagPath(dstr, "W252"), Png(s252)) ELSE f1

\* the markdown built in md[]: the image line only if the W63 image is there
ReportText(f, dstr, b) ==
    Md(b, IF exists(f, DiagPath(dstr, "W63")) THEN <<ImgLine>> ELSE <<>>)

\* f.write(f"**BUNDLE_ROOT_SHA256:** `{bundle}`\n") on a file opened with "a"
AppendMarker(doc, bundle) == Md(doc.n, doc.kids \o <<MarkerLine("bold", bundle)>>)

\* log_path.write_text(...); bundle = compute_bundle_root_sha256(root, dstr);
\* if bundle: append the marker
WriteReport(f, dstr, b) ==
    LET p == LogPath(dstr)
        f1 == write(f, p, ReportText(f, dstr, b))
        bundle == compute_bundle_root_sha256(f1, dstr)
    IN  [fs |-> IF bundle # NoneV THEN write(f1, p, AppendMarker(f1[p], bundle)) ELSE f1,
         bundle |-> bundle]

\* an item of index.json: its "date" and its "bundle_root_sha256"
Item(dstr, bundle) == V("item", 0, <<DateV(dstr), bundle>>)
ItemDate(x) == <<x.kids[1].n, x.kids[1].kids[1].n, x.kids[1].kids[2].n>>

\* "YYYY-MM-DD" strings compared as Python compares strings
StrLess(a, b) ==
    \/ a[1] < b[1]
    \/ a[1] = b[1] /\ a[2] < b[2]
    \/ a[1] = b[1] /\ a[2] = b[2] /\ a[3] < b[3]

\* [x for x in items if x.get("date") != dstr]
RECURSIVE DropDate(_, _)
DropDate(items, dstr) ==
    IF items = <<>> THEN <<>>
    ELSE IF ItemDate(Head(items)) = dstr THEN DropDate(Tail(items), dstr)
         ELSE <<Head(items)>> \o DropDate(Tail(items), dstr)

\* items.sort(key=lambda x: x["date"]): a stable sort
RECURSIVE InsertByDate(_, _)
InsertByDate(sorted, x) ==
    IF sorted = <<>> THEN <<x>>
    ELSE IF StrLess(ItemDate(x), ItemDate(Head(sorted)))
         THEN <<x>> \o sorted
         ELSE <<Head(sorted)>> \o InsertByDate(Tail(sorted), x)

RECURSIVE SortByDate(_)
SortByDate(items) ==
    IF items = <<>> THEN <<>>
    ELSE InsertByDate(SortByDate(SubSeq(items, 1, Len(items) - 1)), items[Len(items)])

\* a mutant of UpdateIndex: the date's old item is kept
UpdateIndex_keep_old(f, dstr, bundle) ==
    LET items == IF exists(f, IndexPath) THEN f[IndexPath].kids ELSE <<>>
    IN  write(f, IndexPath, V("index", 0, SortByDate(items \o <<Item(dstr, bundle)>>)))

\* the index.json update
UpdateIndex(f, dstr, bundle) ==
    LET items == IF exists(f, IndexPath) THEN f[IndexPath].kids ELSE <<>>
    IN  write(f, IndexPath,
              V("index", 0, SortByDate(DropDate(items, dstr) \o <<Item(dstr, bundle)>>)))

\* publish_today.main() for a run directory whose latest date is d, whose
\* report renders to body b and whose diagnostic images are s63 and s252
Publish(d, b, s63, s252) ==
    LET dstr == isoformat(d)
        f1 == CopyDiagnostics(fs, dstr, s63, s252)
        r == WriteReport(f1, dstr, b)
    IN  /\ fs' = UpdateIndex(r.fs, dstr, r.bundle)
        /\ out' = [NoOut EXCEPT !.op = "publish", !.arg = dstr, !.status = "ok",
                                !.root = r.bundle]
        /\ UNCHANGED <<isoArgs, isoRes>>

\* the operator drops a diagnostic image into assets/diagnostic/ by hand
PutDiag(d, W, v) ==
    /\ fs' = write(fs, DiagPath(isoformat(d), W), Png(v))
    /\ out' = NoOut
    /\ UNCHANGED <<isoArgs, isoRes>>

\* python scripts/anchor_hash.py --date <d>
AnchorHash(d) ==
    /\ out' = anchor_hash_main(fs, isoformat(d))
    /\ UNCHANGED <<fs, isoArgs, isoRes>>

\* the dates the publish workflow and the Fingerprinter are run for
DayDates == {date(2026, 1, 26), date(2026, 1, 27)}
\* the date of them that has diagnostic images
DayDiagDates == {date(2026, 1, 26)}

Init ==
    /\ fs = RepoRoot
    /\ out = NoOut
    /\ isoArgs = <<0, 0>>
    /\ isoRes = <<>>

Next ==
    \/ \E d \in DayDiagDates, b \in 1..MaxBody, s63 \in 0..MaxPng, s252 \in 0..MaxPng :
          Publish(d, b, s63, s252)
    \/ \E d \in DayDates \ DayDiagDates, b \in 1..MaxBody : Publish(d, b, 0, 0)
    \/ \E d \in DayDiagDates, W \in {"W63", "W252"}, v \in 1..MaxPng : PutDiag(d, W, v)
    \/ \E d \in DayDates : AnchorHash(d)

Spec == Init /\ [][Next]_vars

(* ------------------- claims on the day-level programs ----------------- *)

\* the digests of the artifacts of a date that exist, in the order report,
\* W63, W252, written out role by role
DigestsOnDisk(f, dstr) ==
    (IF LogPath(dstr) \in DOMAIN f
        THEN <<sha256(<<f[LogPath(dstr)]>>)>> ELSE <<>>)
    \o (IF DiagPath(dstr, "W63") \in DOMAIN f
        THEN <<sha256(<<f[DiagPath(dstr, "W63")]>>)>> ELSE <<>>)
    \o (IF DiagPath(dstr, "W252") \in DOMAIN f
        THEN <<sha256(<<f[DiagPath(dstr, "W252")]>>)>> ELSE <<>>)

\* the marker lines of a document, in text order
MarkerLinesOf(doc) == SelectSeq(doc.kids, LAMBDA l : l.tag = "marker")

\* a document without its last line
WithoutLastLine(doc) == Md(doc.n, SubSeq(doc.kids, 1, Len(doc.kids) - 1))

\* C1: for every non-empty subset of the three artifacts that exists for a
\* date, the BundleRoot is sha256 of the raw digests of exactly the existing
\* artifacts in the order report, W63, W252: nothing padded, sorted or
\* dropped as a duplicate.  It is so for the Fingerprinter's run and for the
\* root the publish workflow computes over the report it has just written.
C1_BundleRoot ==
    /\ (out.op = "anchor_hash" /\ out.status = "ok") =>
          /\ DigestsOnDisk(fs, out.arg) # <<>>
          /\ out.root = hexdigest(sha256(DigestsOnDisk(fs, out.arg)))
          /\ Len(out.parts) = Len(DigestsOnDisk(fs, out.arg))
          /\ \A i \in 1..Len(out.parts) :
                out.parts[i].h = hexdigest(DigestsOnDisk(fs, out.arg)[i])
    /\ (out.op = "publish") =>
          LET p == LogPath(out.arg)
              before == write(fs, p, WithoutLastLine(fs[p]))
          IN  out.root = hexdigest(sha256(DigestsOnDisk(before, out.arg)))

\* the Fingerprinter has run over {report present, W63 absent, W252 present}
C1_Witness ==
    /\ out.op = "anchor_hash" /\ out.status = "ok"
    /\ LogPath(out.arg) \in DOMAIN fs
    /\ DiagPath(out.arg, "W63") \notin DOMAIN fs
    /\ DiagPath(out.arg, "W252") \in DOMAIN fs
    /\ out.root = hexdigest(sha256(<<sha256(<<fs[LogPath(out.arg)]>>),
                                     sha256(<<fs[DiagPath(out.arg, "W252")]>>)>>))

\* C5: the Fingerprinter fails with NoArtifactsFound exactly when none of the
\* three artifacts of the date exists, and then produces no BundleRoot; when
\* at least one exists it produces a BundleRoot and does not fail.
C5_NoArtifactsFound ==
    (out.op = "anchor_hash") =>
        /\ out.status \in {"ok", "NoArtifactsFound"}
        /\ (out.status = "NoArtifactsFound") <=>
              (\A i \in 1..3 : BundlePaths(out.arg)[i] \notin DOMAIN fs)
        /\ (out.status = "NoArtifactsFound") => (out.root = NoneV)
        /\ (out.status = "ok") => (out.root # NoneV /\ IsHex64(out.root))

\* the Fingerprinter has failed on a date without artifacts, beside a date
\* that has some
C5_Witness ==
    /\ out.op = "anchor_hash" /\ out.status = "NoArtifactsFound"
    /\ \E p \in DOMAIN fs : p.dir = "assets/diagnostic"

\* the Fingerprinter has succeeded on a date that has no report
C5_WitnessNoReport ==
    /\ out.op = "anchor_hash" /\ out.status = "ok"
    /\ LogPath(out.arg) \notin DOMAIN fs

\* the digest embedded in a report's marker line (its last one)
EmbeddedDigest(doc) ==
    LET ms == MarkerLinesOf(doc) IN ms[Len(ms)].kids[2]

\* C7: the publish workflow has completed for a date and nothing is modified
\* afterwards; the Fingerprinter, run next for that date over the artifacts
\* on disk, yields the digest embedded in the day's report marker.
C7_FingerprintMatchesMarker ==
    [][(out.op = "publish" /\ out'.op = "anchor_hash" /\ out'.arg = out.arg)
        => (out'.status = "ok"
            /\ out'.root = EmbeddedDigest(fs'[LogPath(out.arg)]))]_vars

\* C10: after any sequence of completed publish runs, every published date's
\* report holds exactly one BUNDLE_ROOT_SHA256 marker, the one the latest run
\* for the date wrote, and index.json holds exactly one item per published
\* date, in ascending date order, whose bundle_root_sha256 is that marker's
\* digest.
C10_OneMarkerOneItem ==
    LET published == {d \in DayDates : LogPath(isoformat(d)) \in DOMAIN fs}
        items == IF IndexPath \in DOMAIN fs THEN fs[IndexPath].kids ELSE <<>>
    IN  /\ \A d \in published :
              LET doc == fs[LogPath(isoformat(d))]
              IN  /\ Len(MarkerLinesOf(doc)) = 1
                  /\ doc.kids[Len(doc.kids)].tag = "marker"
                  /\ doc.kids[Len(doc.kids)].kids[1].tag = "bold"
                  /\ IsHex64(EmbeddedDigest(doc)) /\ EmbeddedDigest(doc).tag = "hex"
                  /\ \E i \in 1..Len(items) :
                        /\ ItemDate(items[i]) = isoformat(d)
                        /\ items[i].kids[2] = EmbeddedDigest(doc)
        /\ Len(items) = Cardinality(published)
        /\ \A i \in 1..Len(items) :
              \E d \in published : ItemDate(items[i]) = isoformat(d)
        /\ \A i \in 1..(Len(items) - 1) :
              date(ItemDate(items[i])[1], ItemDate(items[i])[2], ItemDate(items[i])[3])
              < date(ItemDate(items[i + 1])[1], ItemDate(items[i + 1])[2],
                     ItemDate(items[i + 1])[3])
        /\ (out.op = "publish") =>
              EmbeddedDigest(fs[LogPath(out.arg)]) = out.root

\* both dates are published, the earlier one after the later one
C10_Witness ==
    /\ out.op = "publish" /\ out.arg = <<2026, 1, 26>>
    /\ IndexPath \in DOMAIN fs
    /\ Len(fs[IndexPath].kids) = 2
    /\ LogPath(<<2026, 1, 27>>) \in DOMAIN fs
    /\ fs[LogPath(<<2026, 1, 27>>)].n = 2
    /\ fs[LogPath(<<2026, 1, 26>>)].n = 1

(* ---------------------------- Rollup Chainer -------------------------- *)

\* HASH_RE = BUNDLE_ROOT_SHA256:\s*`([0-9a-fA-F]{64})` on one line: after the
\* colon only white space may come before the backtick
HASH_RE_matches(line) ==
    /\ line.tag = "marker"
    /\ line.kids[1].tag = "ws"
    /\ IsHex64(line.kids[2])

\* HASH_RE.search(txt): the first match in text order, or None
RECURSIVE HASH_RE_search(_)
HASH_RE_search(lines) ==
    IF lines = <<>> THEN NoneV
    ELSE IF HASH_RE_matches(Head(lines)) THEN Head(lines).kids[2]
         ELSE HASH_RE_search(Tail(lines))

\* parse_md_for_hash(p), on the document p holds
parse_md_for_hash(doc) ==
    LET m == HASH_RE_search(doc.kids)
    IN  IF m # NoneV THEN lower(m) ELSE NoneV

\* mutants of sha256_hex_bytes: the hashes fed last day first; the function
\* returning from inside its loop, after the first hash
RECURSIVE Reverse(_)
Reverse(q) == IF q = <<>> THEN <<>> ELSE Reverse(Tail(q)) \o <<Head(q)>>

sha256_hex_bytes_reversed(hex_list) == hexdigest(sha256(ConcatFromHex(Reverse(hex_list))))

sha256_hex_bytes_first_only(hex_list) ==
    hexdigest(sha256(IF hex_list = <<>> THEN <<>> ELSE fromhex(Head(hex_list))))

\* sha256_hex_bytes(hex_list)
sha256_hex_bytes(hex_list) == hexdigest(sha256(ConcatFromHex(hex_list)))

\* the loop over days: <<entries, missing>>
RECURSIVE ScanDays(_, _)
ScanDays(f, days) ==
    IF days = <<>> THEN [entries |-> <<>>, missing |-> <<>>]
    ELSE LET dstr == isoformat(Head(days))
             rest == ScanDays(f, Tail(days))
             h == IF exists(f, LogPath(dstr))
                     THEN parse_md_for_hash(f[LogPath(dstr)]) ELSE NoneV
         IN  IF h = NoneV
             THEN [rest EXCEPT !.missing = <<dstr>> \o rest.missing]
             ELSE [rest EXCEPT !.entries = <<[d |-> dstr, h |-> h]>> \o rest.entries]

\* the requested period: <<days, label>>, or no days when --year/--week lack
Period(args, today) ==
    IF args.thisweek
    THEN LET ic == isocalendar(today)
         IN  [days |-> iso_week_dates(ic[1], ic[2]),
              label |-> [year |-> ic[1], week |-> ic[2], suffix |-> ""]]
    ELSE IF args.last7
    THEN [days |-> [i \in 1..7 |-> today - (7 - i)],
          label |-> [year |-> isocalendar(today)[1], week |-> isocalendar(today)[2],
                     suffix |-> "_last7"]]
    ELSE IF ~args.given
    THEN [days |-> <<>>, label |-> [year |-> 0, week |-> 0, suffix |-> ""]]
    ELSE [days |-> iso_week_dates(args.year, args.week),
          label |-> [year |-> args.year, week |-> args.week, suffix |-> ""]]

\* the rollup document
RollupText(label, entries, missing, weekly_root) ==
    V("weekly", 0,
      <<V("title" \o label.suffix, label.year, <<V("week", label.week, <<>>)>>)>>
      \o [i \in 1..Len(entries) |-> V("entry", 0, <<DateV(entries[i].d), entries[i].h>>)]
      \o [i \in 1..Len(missing) |-> V("missing", 0, <<DateV(missing[i])>>)]
      \o <<V("root", 0, <<weekly_root>>)>>)

RollupOut(label, status) ==
    [NoOut EXCEPT !.op = "weekly_rollup", !.status = status,
                  !.arg = <<label.year, label.week, Len(label.suffix)>>]

\* a mutant of weekly_rollup_main: the document is written before the check
\* that there is anything to roll up
weekly_rollup_main_write_first(f, args, today) ==
    LET per == Period(args, today)
        scan == ScanDays(f, per.days)
        hashes == [i \in 1..Len(scan.entries) |-> scan.entries[i].h]
        weekly_root == sha256_hex_bytes(hashes)
        f1 == write(f, WeeklyPath(per.label),
                    RollupText(per.label, scan.entries, scan.missing, weekly_root))
    IN  IF ~exists(f, LogsDir)
        THEN [fs |-> f, out |-> RollupOut(per.label, "FilesystemLayoutError")]
        ELSE IF per.days = <<>>
        THEN [fs |-> f, out |-> RollupOut(per.label, "ValueError")]
        ELSE IF scan.entries = <<>>
        THEN [fs |-> f1,
              out |-> [RollupOut(per.label, "NoRecordsInRange") EXCEPT
                          !.days = per.days, !.missing = scan.missing]]
        ELSE [fs |-> f1,
              out |-> [RollupOut(per.label, "ok") EXCEPT
                          !.days = per.days, !.entries = scan.entries,
                          !.missing = scan.missing, !.root = weekly_root]]

\* a mutant of weekly_rollup_main: the rollup document is opened for append
weekly_rollup_main_append(f, args, today) ==
    LET per == Period(args, today)
        scan == ScanDays(f, per.days)
        hashes == [i \in 1..Len(scan.entries) |-> scan.entries[i].h]
        weekly_root == sha256_hex_bytes(hashes)
        old == IF exists(f, WeeklyPath(per.label)) THEN f[WeeklyPath(per.label)].kids
               ELSE <<>>
        new == RollupText(per.label, scan.entries, scan.missing, weekly_root)
    IN  IF ~exists(f, LogsDir)
        THEN [fs |-> f, out |-> RollupOut(per.label, "FilesystemLayoutError")]
        ELSE IF per.days = <<>>
        THEN [fs |-> f, out |-> RollupOut(per.label, "ValueError")]
        ELSE IF scan.entries = <<>>
        THEN [fs |-> f,
              out |-> [RollupOut(per.label, "NoRecordsInRange") EXCEPT
                          !.days = per.days, !.missing = scan.missing]]
        ELSE [fs |-> write(f, WeeklyPath(per.label), V("weekly", 0, old \o new.kids)),
              out |-> [RollupOut(per.label, "ok") EXCEPT
                          !.days = per.days, !.entries = scan.entries,
                          !.missing = scan.missing, !.root = weekly_root]]

\* weekly_anchor_rollup.main(): the file system it leaves and what it prints
\* or raises
weekly_rollup_main(f, args, today) ==
    LET per == Period(args, today)
        scan == ScanDays(f, per.days)
        hashes == [i \in 1..Len(scan.entries) |-> scan.entries[i].h]
        weekly_root == sha256_hex_bytes(hashes)
    IN  IF ~exists(f, LogsDir)
        THEN [fs |-> f, out |-> RollupOut(per.label, "FilesystemLayoutError")]
        ELSE IF per.days = <<>>
        THEN [fs |-> f, out |-> RollupOut(per.label, "ValueError")]
        ELSE IF scan.entries = <<>>
        THEN [fs |-> f,
              out |-> [RollupOut(per.label, "NoRecordsInRange") EXCEPT
                          !.days = per.days, !.missing = scan.missing]]
        ELSE [fs |-> write(f, WeeklyPath(per.label),
                           RollupText(per.label, scan.entries, scan.missing, weekly_root)),
              out |-> [RollupOut(per.label, "ok") EXCEPT
                          !.days = per.days, !.entries = scan.entries,
                          !.missing = scan.missing, !.root = weekly_root]]

\* python scripts/weekly_anchor_rollup.py <args>, run on the day `today`
WeeklyRollup(args, today) ==
    LET r == weekly_rollup_main(fs, args, today)
    IN  /\ fs' = r.fs
        /\ out' = r.out
        /\ UNCHANGED <<isoArgs, isoRes>>

\* the bundle root of a day whose only artifact is a report of body b, as the
\* publish workflow computes it
BodyRoot(b) == sha256(<<sha256(<<Md(b, <<>>)>>)>>)

\* report documents written or edited by hand, their marker in the form the
\* Chainer's pattern reads ("BUNDLE_ROOT_SHA256: `<h>`"): lowercase digits,
\* uppercase digits, a digit short, no marker at all, a cut marker followed
\* by a whole one
HandDocs ==
    { Md(1, <<MarkerLine("ws", V("hex", 0, <<BodyRoot(1)>>))>>),
      Md(1, <<MarkerLine("ws", V("HEX", 0, <<BodyRoot(2)>>))>>),
      Md(1, <<MarkerLine("ws", V("hex63", 0, <<BodyRoot(1)>>))>>),
      Md(1, <<>>),
      Md(1, <<MarkerLine("ws", V("hex65", 0, <<BodyRoot(1)>>)),
              MarkerLine("ws", V("hex", 0, <<BodyRoot(2)>>))>>) }

\* the operator writes (or restores, or edits) a day's report document
WriteDailyDoc(d, doc) ==
    /\ fs' = write(fs, LogPath(isoformat(d)), doc)
    /\ out' = NoOut
    /\ UNCHANGED <<isoArgs, isoRes>>

\* the days of 2026-W05 that get a report: its days 2, 4 and 5
DocDays == {date(2026, 1, 27), date(2026, 1, 29), date(2026, 1, 30)}
\* the day of them the publish workflow is run for
PublishDays == {date(2026, 1, 29)}
\* the day the Chainer is run on
Todays == {date(2026, 1, 28)}

YearWeek(y, w) == [thisweek |-> FALSE, last7 |-> FALSE, given |-> TRUE, year |-> y, week |-> w]
RollupArgs ==
    { YearWeek(2026, 5),
      [YearWeek(0, 0) EXCEPT !.given = FALSE],
      [YearWeek(0, 0) EXCEPT !.given = FALSE, !.thisweek = TRUE],
      [YearWeek(0, 0) EXCEPT !.given = FALSE, !.last7 = TRUE] }

NextWeek ==
    \/ \E d \in DocDays, doc \in HandDocs : WriteDailyDoc(d, doc)
    \/ \E d \in PublishDays : Publish(d, 1, 0, 0)
    \/ \E args \in RollupArgs, today \in Todays : WeeklyRollup(args, today)

SpecWeek == Init /\ [][NextWeek]_vars

(* ------------------ artifacts altered after anchoring ----------------- *)

\* a report of body b anchored in the form the Chainer reads, its digits
\* spelled as `form` says
AnchoredDoc(b, form) == Md(b, <<MarkerLine("ws", V(form, 0, <<BodyRoot(b)>>))>>)

\* the body of a day's report is rewritten; its marker line is left as it is
TamperBody(d, b) ==
    LET p == LogPath(isoformat(d))
    IN  /\ exists(fs, p)
        /\ fs[p].n # b
        /\ fs' = write(fs, p, Md(b, fs[p].kids))
        /\ out' = NoOut
        /\ UNCHANGED <<isoArgs, isoRes>>

\* the days of 2026-W05 whose reports are anchored and altered
TamperDays == {date(2026, 1, 29), date(2026, 1, 30)}
\* the day of them whose W63 diagnostic image is put or replaced
DiagDays == {date(2026, 1, 29)}

NextTamper ==
    \/ \E d \in TamperDays, b \in 1..MaxBody : WriteDailyDoc(d, AnchoredDoc(b, "hex"))
    \/ \E d \in TamperDays, b \in 1..MaxBody : TamperBody(d, b)
    \/ \E d \in DiagDays, v \in 1..MaxPng : PutDiag(d, "W63", v)
    \/ \E today \in Todays : WeeklyRollup(YearWeek(2026, 5), today)

SpecTamper == Init /\ [][NextTamper]_vars

(* ------------------------ claims on the Chainer ----------------------- *)

\* the marker lines of a document the Chainer can read: the digits follow
\* the colon after white space only, and are 64 hex digits in either case
ReadableMarkers(doc) ==
    SelectSeq(doc.kids,
              LAMBDA l : l.tag = "marker" /\ l.kids[1].tag = "ws"
                         /\ l.kids[2].tag \in {"hex", "HEX"})

\* day d (an ordinal) has a daily record the Chainer can read
HasRecord(f, d) ==
    /\ LogPath(isoformat(d)) \in DOMAIN f
    /\ ReadableMarkers(f[LogPath(isoformat(d))]) # <<>>

\* the raw BundleRoot of that record
RecordDigest(f, d) == ReadableMarkers(f[LogPath(isoformat(d))])[1].kids[2].kids[1]

IncludedDays(f, days) == SelectSeq(days, LAMBDA d : HasRecord(f, d))
MissingDays(f, days) == SelectSeq(days, LAMBDA d : ~HasRecord(f, d))

RolledUp == out.op = "weekly_rollup" /\ out.status = "ok"

\* C2: for every requested range with at least one included day, the
\* PeriodRoot is sha256 of the raw bytes of the included days' BundleRoots in
\* strictly ascending date order, only included days taken; the other days
\* of the range are reported missing.
C2_PeriodRoot ==
    RolledUp =>
        LET inc == IncludedDays(fs, out.days)
            mis == MissingDays(fs, out.days)
        IN  /\ \A i \in 1..(Len(out.days) - 1) : out.days[i] < out.days[i + 1]
            /\ inc # <<>>
            /\ out.root = hexdigest(sha256([i \in 1..Len(inc) |-> RecordDigest(fs, inc[i])]))
            /\ out.root.tag = "hex"
            /\ Len(out.entries) = Len(inc)
            /\ \A i \in 1..Len(inc) : out.entries[i].d = isoformat(inc[i])
            /\ out.missing = [i \in 1..Len(mis) |-> isoformat(mis[i])]

\* 2026-W05 rolled up with exactly its days 2, 4 and 5 anchored, day 2 with
\* another digest than day 4: the root is sha256(d2 || d4 || d5), and days 1,
\* 3, 6 and 7 are missing
C2_Witness ==
    /\ RolledUp
    /\ out.arg = <<2026, 5, 0>>
    /\ Len(out.entries) = 3
    /\ out.missing = <<<<2026, 1, 26>>, <<2026, 1, 28>>, <<2026, 1, 31>>, <<2026, 2, 1>>>>
    /\ RecordDigest(fs, date(2026, 1, 27)) # RecordDigest(fs, date(2026, 1, 29))
    /\ out.root = hexdigest(sha256(<<RecordDigest(fs, date(2026, 1, 27)),
                                     RecordDigest(fs, date(2026, 1, 29)),
                                     RecordDigest(fs, date(2026, 1, 30))>>))

\* a document holds a BUNDLE_ROOT_SHA256 marker with exactly 64 hex digits:
\* the line the publish workflow appends, "**BUNDLE_ROOT_SHA256:** `<h>`", or
\* the plain "BUNDLE_ROOT_SHA256: `<h>`"
HasMarker64(doc) ==
    \E i \in 1..Len(doc.kids) :
        doc.kids[i].tag = "marker" /\ doc.kids[i].kids[2].tag \in {"hex", "HEX"}

\* C3: in a Chainer run every requested date is classified exactly once: it
\* is included iff its report document exists and contains a marker with
\* exactly 64 hex digits (any case, normalised to lowercase), and is listed
\* as missing otherwise; a document without a marker or with a malformed one
\* is handled like an absent document and raises nothing; included and
\* missing are disjoint, each in ascending date order, and cover the range.
C3_Classification ==
    (out.op = "weekly_rollup" /\ out.days # <<>>) =>
        LET inc == {out.entries[i].d : i \in 1..Len(out.entries)}
            mis == {out.missing[i] : i \in 1..Len(out.missing)}
            ord(dstr) == date(dstr[1], dstr[2], dstr[3])
        IN  /\ out.status \in {"ok", "NoRecordsInRange"}
            /\ inc \cap mis = {}
            /\ inc \cup mis = {isoformat(out.days[i]) : i \in 1..Len(out.days)}
            /\ Len(out.entries) + Len(out.missing) = Len(out.days)
            /\ \A i \in 1..(Len(out.entries) - 1) :
                  ord(out.entries[i].d) < ord(out.entries[i + 1].d)
            /\ \A i \in 1..(Len(out.missing) - 1) :
                  ord(out.missing[i]) < ord(out.missing[i + 1])
            /\ \A i \in 1..Len(out.entries) : out.entries[i].h.tag = "hex"
            /\ \A i \in 1..Len(out.days) :
                  LET p == LogPath(isoformat(out.days[i]))
                  IN  (isoformat(out.days[i]) \in inc)
                      <=> (p \in DOMAIN fs /\ HasMarker64(fs[p]))

\* C4: when no date of the requested period has an included record, the
\* Chainer fails with NoRecordsInRange, produces no PeriodRoot, and leaves
\* the file system exactly as it was: no rollup document is created or
\* overwritten.
C4_NoRecordsInRange ==
    [][(out'.op = "weekly_rollup" /\ out'.days # <<>>
        /\ IncludedDays(fs, out'.days) = <<>>)
       => (out'.status = "NoRecordsInRange" /\ out'.root = NoneV /\ fs' = fs)]_vars

\* the Chainer has failed on a week some of whose days have a report (none
\* readable) while an older rollup document of that week is on disk
C4_Witness ==
    /\ out.op = "weekly_rollup" /\ out.status = "NoRecordsInRange"
    /\ out.arg = <<2026, 5, 0>>
    /\ WeeklyPath([year |-> 2026, week |-> 5, suffix |-> ""]) \in DOMAIN fs
    /\ \E i \in 1..Len(out.days) : LogPath(isoformat(out.days[i])) \in DOMAIN fs

\* C6: the Chainer has run for a range; run again for the same range over
\* the file system the first run left (the daily reports as they were, the
\* first run's rollup document in logs/), it yields the same PeriodRoot and
\* a byte-identical rollup document, and reads the same daily records.
C6_Idempotent ==
    RolledUp =>
        \A args \in RollupArgs, today \in Todays :
            LET again == weekly_rollup_main(fs, args, today)
            IN  (again.out.arg = out.arg /\ again.out.days = out.days) =>
                    /\ again.out = out
                    /\ again.fs = fs

\* the Chainer has rolled up a week with two anchored days and its rollup
\* document is in logs/
C6_Witness ==
    /\ RolledUp
    /\ Len(out.entries) = 2
    /\ out.arg = <<2026, 5, 0>>
    /\ WeeklyPath([year |-> 2026, week |-> 5, suffix |-> ""]) \in DOMAIN fs
    /\ fs[WeeklyPath([year |-> 2026, week |-> 5, suffix |-> ""])].kids[Len(out.days) + 2]
         = V("root", 0, <<out.root>>)

\* what the Chainer prints or raises for 2026-W05 on a file system
RollupOfWeek5(f) ==
    weekly_rollup_main(f, YearWeek(2026, 5), CHOOSE t \in Todays : TRUE).out

Week5 == iso_week_dates(2026, 5)

\* the bytes of an artifact of day d (the report's body, a diagnostic image)
\* are not the same on f and on g
ArtifactBytesDiffer(f, g, d) ==
    LET dstr == isoformat(d)
        differ(p) == (p \in DOMAIN f) # (p \in DOMAIN g)
                     \/ (p \in DOMAIN f /\ p \in DOMAIN g /\ f[p] # g[p])
    IN  \/ f[LogPath(dstr)].n # g[LogPath(dstr)].n
        \/ differ(DiagPath(dstr, "W63"))
        \/ differ(DiagPath(dstr, "W252"))

\* the raw BundleRoots embedded in the reports of the included days, in date
\* order
EmbeddedRoots(f, days) ==
    LET inc == IncludedDays(f, days)
    IN  [i \in 1..Len(inc) |-> RecordDigest(f, inc[i])]

\* C8 as claimed: two file systems that differ in the bytes of an artifact
\* (report body or diagnostic image) of an included day of the range give
\* different PeriodRoots.
C8_ContentChangesRoot ==
    [][(\E i \in 1..7 :
            /\ HasRecord(fs, Week5[i]) /\ HasRecord(fs', Week5[i])
            /\ ArtifactBytesDiffer(fs, fs', Week5[i]))
       => (RollupOfWeek5(fs).root # RollupOfWeek5(fs').root)]_vars

\* C8 amended: the PeriodRoot depends on the digests embedded in the markers
\* of the included days and on nothing else: two file systems give the same
\* PeriodRoot exactly when the included days' embedded digests, in date
\* order, are the same, so that altering a report's body or a diagnostic
\* image while the marker lines stay as they are leaves the PeriodRoot as it
\* was.
C8_RootFollowsMarkers ==
    [][(RollupOfWeek5(fs).status = "ok" /\ RollupOfWeek5(fs').status = "ok")
       => ((RollupOfWeek5(fs).root = RollupOfWeek5(fs').root)
           <=> (EmbeddedRoots(fs, Week5) = EmbeddedRoots(fs', Week5)))]_vars

\* the Chainer has rolled up a week in which a day's report body is no longer
\* the one its embedded digest was computed from, and a diagnostic image
\* lies beside it
C8_Witness ==
    /\ RolledUp
    /\ Len(out.entries) = 2
    /\ HasRecord(fs, date(2026, 1, 29))
    /\ BodyRoot(fs[LogPath(<<2026, 1, 29>>)].n) # RecordDigest(fs, date(2026, 1, 29))
    /\ DiagPath(<<2026, 1, 29>>, "W63") \in DOMAIN fs
    /\ out.root = hexdigest(sha256(EmbeddedRoots(fs, Week5)))

(* --------------------- the ISO-week function alone -------------------- *)

InitIso ==
    /\ fs = RepoRoot
    /\ out = NoOut
    /\ isoArgs \in (FirstYear..LastYear) \X (1..53)
    /\ isoRes = <<>>

IsoWeekDatesCall ==
    /\ isoRes = <<>>
    /\ isoRes' = iso_week_dates(isoArgs[1], isoArgs[2])
    /\ UNCHANGED <<fs, out, isoArgs>>

NextIso == IsoWeekDatesCall

SpecIso == InitIso /\ [][NextIso]_vars

\* the ISO 8601 week of a date by the Thursday rule: a week belongs to the
\* year its Thursday falls in, and is numbered by that Thursday's place
ThursdayOf(o) == o - ((o + 6) % 7) + 3
IsoYearOf(o) == YearOf(ThursdayOf(o))
IsoWeekOf(o) == ((ThursdayOf(o) - date(IsoYearOf(o), 1, 1)) \div 7) + 1
\* December 28th is always in the last ISO week of its year
WeeksInIsoYear(y) == IsoWeekOf(date(y, 12, 28))

\* C9: for every year and every week number that exists in that ISO year,
\* iso_week_dates(year, week) is 7 consecutive ascending dates, Monday first,
\* Sunday last, all of ISO week `week` of ISO year `year`; (2026, 5) is
\* 2026-01-26 .. 2026-02-01.
C9_IsoWeekDates ==
    (isoRes # <<>> /\ isoArgs[2] <= WeeksInIsoYear(isoArgs[1])) =>
        /\ Len(isoRes) = 7
        /\ \A i \in 1..6 : isoRes[i + 1] = isoRes[i] + 1
        /\ (isoRes[1] + 6) % 7 = 0
        /\ (isoRes[7] + 6) % 7 = 6
        /\ \A i \in 1..7 :
              /\ IsoYearOf(isoRes[i]) = isoArgs[1]
              /\ IsoWeekOf(isoRes[i]) = isoArgs[2]
        /\ (isoArgs = <<2026, 5>>) =>
              /\ isoformat(isoRes[1]) = <<2026, 1, 26>>
              /\ isoformat(isoRes[7]) = <<2026, 2, 1>>

C9_Witness ==
    /\ isoRes # <<>>
    /\ isoArgs = <<2026, 53>>
    /\ WeeksInIsoYear(2026) = 53
    /\ isoformat(isoRes[7]) = <<2027, 1, 3>>

====
